---------------------------- MODULE Spec2Model ----------------------------
(***************************************************************************)
(* A model of ontobio's association-file parsers (ontobio/io/gafparser.py): *)
(* the driver AssocParser.parse, the three line decoders                   *)
(* GafParser.parse_line, GpadParser.parse_line and HpoaParser.parse_line,  *)
(* the validation helpers and the Report they write to.                    *)
(*                                                                         *)
(* A Python str is a sequence of one-character strings; None is the empty  *)
(* tuple and a value that may be None is wrapped in a one-element tuple.   *)
(* A call that raises returns a record whose field "raised" names the      *)
(* exception; the messages it had appended to the report before raising    *)
(* are kept, as they are in the program.                                   *)
(***************************************************************************)
EXTENDS Integers, Sequences, FiniteSets, TLC

----------------------------------------------------------------------------
(* Python values *)

None == << >>
Some(x) == <<x>>

TAB == "\t"
NL == "\n"

\* line 14..16
TAXON == "TAXON"
ENTITY == "ENTITY"
ANNOTATION == "ANNOTATION"
\* the default of _validate_id's parameter context, line 232
NoContext == "None"

\* Report's levels and message types, lines 40..47
FATAL == "FATAL"
ERROR == "ERROR"
WARNING == "WARNING"
INVALID_ID == "Invalid identifier"
INVALID_IDSPACE == "Invalid identifier prefix"
INVALID_TAXON == "Invalid taxon"

\* string literals of the decoders
sNOT == <<"N", "O", "T">>
sTaxon == <<"t", "a", "x", "o", "n">>
sNCBITaxon == <<"N", "C", "B", "I", "T", "a", "x", "o", "n">>
sHuman == <<"N", "C", "B", "I", "T", "a", "x", "o", "n", ":", "9", "6", "0", "6">>
sDisease == <<"d", "i", "s", "e", "a", "s", "e">>
sIsoform == <<"i", "s", "o", "f", "o", "r", "m">>
sPartOf == <<"p", "a", "r", "t", "_", "o", "f">>
sInvolvedIn == <<"i", "n", "v", "o", "l", "v", "e", "d", "_", "i", "n">>
sEnables == <<"e", "n", "a", "b", "l", "e", "s">>
sHasPhenotype == <<"h", "a", "s", "_", "p", "h", "e", "n", "o", "t", "y", "p", "e">>
sHasInheritance == <<"h", "a", "s", "_", "i", "n", "h", "e", "r", "i", "t", "a", "n", "c", "e">>
sMortality == <<"m", "o", "r", "t", "a", "l", "i", "t", "y">>
sHasOnset == <<"h", "a", "s", "_", "o", "n", "s", "e", "t">>

----------------------------------------------------------------------------
(* str methods *)

\* c in s, s.find(c) > -1 for a one-character c
contains(s, c) == \E i \in 1..Len(s) : s[i] = c

\* s.split(sep) for a one-character sep
RECURSIVE split(_, _)
split(s, sep) ==
    IF ~contains(s, sep) THEN <<s>>
    ELSE LET i == CHOOSE k \in 1..Len(s) :
                     s[k] = sep /\ \A j \in 1..(k - 1) : s[j] # sep
         IN <<SubSeq(s, 1, i - 1)>> \o split(SubSeq(s, i + 1, Len(s)), sep)

\* sep.join(vals) for a list of str
RECURSIVE join(_, _)
join(sep, vals) ==
    IF Len(vals) = 0 THEN << >>
    ELSE IF Len(vals) = 1 THEN vals[1]
    ELSE vals[1] \o <<sep>> \o join(sep, Tail(vals))

\* s.startswith(p)
startswith(s, p) == Len(s) >= Len(p) /\ SubSeq(s, 1, Len(p)) = p

\* s.replace(old, new), old not empty
RECURSIVE replace(_, _, _)
replace(s, old, new) ==
    IF Len(s) < Len(old) THEN s
    ELSE IF SubSeq(s, 1, Len(old)) = old
         THEN new \o replace(SubSeq(s, Len(old) + 1, Len(s)), old, new)
         ELSE <<s[1]>> \o replace(Tail(s), old, new)

\* s.strip("\n")
RECURSIVE strip_nl(_)
strip_nl(s) ==
    IF Len(s) > 0 /\ s[1] = NL THEN strip_nl(Tail(s))
    ELSE IF Len(s) > 0 /\ s[Len(s)] = NL THEN strip_nl(SubSeq(s, 1, Len(s) - 1))
    ELSE s

\* [x for x in xs if x != v]
RECURSIVE without(_, _)
without(xs, v) ==
    IF Len(xs) = 0 THEN << >>
    ELSE (IF xs[1] = v THEN << >> ELSE <<xs[1]>>) \o without(Tail(xs), v)

\* v in xs, for a list xs
isin(v, xs) == \E i \in 1..Len(xs) : xs[i] = v

\* a dict with one more key
withkey(d, k, v) == [x \in DOMAIN d \cup {k} |-> IF x = k THEN v ELSE d[x]]

----------------------------------------------------------------------------
(* Report.message and Report.error: the message a call appends *)

message(level, line, type, obj, msg) ==
    [level |-> level, line |-> line, type |-> type, message |-> msg, obj |-> obj]

error(line, type, obj, msg) == message(ERROR, line, type, obj, msg)

----------------------------------------------------------------------------
(* AssocParser's helpers.  Each returns its value and, in msgs, the        *)
(* messages it appends to self.report.                                     *)

_get_id_prefix(id) == split(id, ":")[1]

_validate_taxon(config, taxon, line) ==
    IF config.valid_taxa = None THEN [ok |-> TRUE, msgs |-> << >>]
    ELSE IF taxon \in config.valid_taxa[1] THEN [ok |-> TRUE, msgs |-> << >>]
    ELSE [ok |-> FALSE, msgs |-> <<error(line, INVALID_TAXON, taxon, "")>>]

_validate_id(config, id, line, context) ==
    IF contains(id, " ")
    THEN [ok |-> FALSE, msgs |-> <<error(line, INVALID_ID, id, "")>>]
    ELSE LET piped == IF contains(id, "|")
                      THEN <<error(<< >>, INVALID_ID, id, "")>>
                      ELSE << >>
             idspace == _get_id_prefix(id)
         IN IF /\ context = ANNOTATION
               /\ config.class_idspaces # None
               /\ idspace \notin config.class_idspaces[1]
            THEN [ok |-> FALSE,
                  msgs |-> piped \o <<error(line, INVALID_IDSPACE, id, "allowed: {}")>>]
            ELSE [ok |-> TRUE, msgs |-> piped]

RECURSIVE _validate_all(_, _)
_validate_all(config, ids) ==
    IF Len(ids) = 0 THEN [ids |-> << >>, msgs |-> << >>]
    ELSE LET v == _validate_id(config, ids[1], << >>, NoContext)
             r == _validate_all(config, Tail(ids))
         IN [ids |-> (IF v.ok THEN <<ids[1]>> ELSE << >>) \o r.ids,
             msgs |-> v.msgs \o r.msgs]

_split_pipe(config, v) ==
    IF v = << >> THEN [ids |-> << >>, msgs |-> << >>]
    ELSE _validate_all(config, split(v, "|"))

_pair_to_id(config, db, localid) ==
    LET prefix == db \o <<":">>
        local2 == IF config.remove_double_prefixes /\ startswith(localid, prefix)
                  THEN replace(localid, prefix, << >>)
                  ELSE localid
    IN db \o <<":">> \o local2

_taxon_id(config, id) ==
    LET id2 == replace(id, sTaxon, sNCBITaxon)
    IN [id |-> id2, msgs |-> _validate_id(config, id2, << >>, TAXON).msgs]

\* the id a remap table gives, the id itself when the table has no entry
map_id(id, id_map) == IF id \in DOMAIN id_map THEN id_map[id] ELSE id

\* re.findall('(.*)\((.*)\)', x) has a match iff some "(" comes before some
\* ")"; the greedy groups end the filler at the last ")" and start it after
\* the last "(" before that; what follows the last ")" is dropped.  With no
\* match the unpacking [(p,v)] = [] raises ValueError.
_parse_class_expression(x) ==
    IF ~(\E i, j \in 1..Len(x) : i < j /\ x[i] = "(" /\ x[j] = ")")
    THEN [raised |-> TRUE, value |-> None]
    ELSE LET j == CHOOSE k \in 1..Len(x) :
                     x[k] = ")" /\ \A m \in (k + 1)..Len(x) : x[m] # ")"
             i == CHOOSE k \in 1..(j - 1) :
                     x[k] = "(" /\ \A m \in (k + 1)..(j - 1) : x[m] # "("
         IN [raised |-> FALSE,
             value |-> Some([property |-> SubSeq(x, 1, i - 1),
                             filler |-> SubSeq(x, i + 1, j - 1)])]

----------------------------------------------------------------------------
(* What parse_line gives back: the pair (line, assocs) it returns, or the   *)
(* exception it raises; msgs are the messages appended to the report.       *)

Return(line, assocs, msgs) ==
    [raised |-> "none", line |-> line, assocs |-> assocs, msgs |-> msgs]

Raise(exc, msgs) ==
    [raised |-> exc, line |-> << >>, assocs |-> << >>, msgs |-> msgs]

\* the loop over xp_ands left after its first atom
_extns_first_only(xp_ands) ==
    LET idx == {i \in 1..Len(xp_ands) : xp_ands[i] # << >>}
    IN IF idx = {} THEN [raised |-> FALSE, extns |-> << >>]
       ELSE LET i == CHOOSE i \in idx : \A j \in idx : i <= j
                e == _parse_class_expression(xp_ands[i])
            IN IF e.raised THEN [raised |-> TRUE, extns |-> << >>]
               ELSE [raised |-> FALSE, extns |-> <<e.value[1]>>]

\* the inner loop over xp_ands, lines 516..520 and 361..365
RECURSIVE _extns(_)
_extns(xp_ands) ==
    IF Len(xp_ands) = 0 THEN [raised |-> FALSE, extns |-> << >>]
    ELSE IF xp_ands[1] = << >> THEN _extns(Tail(xp_ands))
    ELSE LET e == _parse_class_expression(xp_ands[1])
         IN IF e.raised THEN [raised |-> TRUE, extns |-> << >>]
            ELSE LET r == _extns(Tail(xp_ands))
                 IN [raised |-> r.raised, extns |-> <<e.value[1]>> \o r.extns]

\* qualifier.split("|"), [] for the empty column
qualifiers_of(qualifier) ==
    IF qualifier = << >> THEN << >> ELSE split(qualifier, "|")

\* the qualifiers a record reports, lines 591 and 758
reported_qualifiers(qualifier) == qualifiers_of(qualifier)

gaf_relation(qualifier, aspect) ==
    LET other_qualifiers == without(qualifiers_of(qualifier), sNOT)
    IN IF Len(other_qualifiers) > 0 THEN Some(other_qualifiers[1])
       ELSE IF aspect = <<"C">> THEN Some(sPartOf)
       ELSE IF aspect = <<"P">> THEN Some(sInvolvedIn)
       ELSE IF aspect = <<"F">> THEN Some(sEnables)
       ELSE None

hpoa_relation(qualifier, aspect) ==
    LET other_qualifiers == without(qualifiers_of(qualifier), sNOT)
    IN IF Len(other_qualifiers) > 0 THEN Some(other_qualifiers[1])
       ELSE IF aspect = <<"O">> THEN Some(sHasPhenotype)
       ELSE IF aspect = <<"I">> THEN Some(sHasInheritance)
       ELSE IF aspect = <<"M">> THEN Some(sMortality)
       ELSE IF aspect = <<"C">> THEN Some(sHasOnset)
       ELSE None

synonyms_of(db_object_synonym) ==
    IF db_object_synonym = << >> THEN << >> ELSE split(db_object_synonym, "|")

\* The loop over xp_ors of GafParser.parse_line, lines 513..605.  f holds the
\* values the loop reads; evidence is the local variable of that name at the
\* head of the iteration: the evidence column at first, and from the second
\* iteration on the dict that line 579 bound it to.
RECURSIVE gaf_assocs(_, _, _, _)
gaf_assocs(config, f, xp_ors, evidence) ==
    IF Len(xp_ors) = 0 THEN [raised |-> FALSE, assocs |-> << >>, msgs |-> << >>]
    ELSE
    LET x == _extns(split(xp_ors[1], ","))
    IN IF x.raised THEN [raised |-> TRUE, assocs |-> << >>, msgs |-> << >>]
       ELSE
       LET qualifiers == qualifiers_of(f.qualifier)
           negated == isin(sNOT, qualifiers)
           relation == gaf_relation(f.qualifier, f.aspect)
           object == [id |-> f.goid, taxon |-> f.taxon]
           subject == [id |-> f.id,
                       label |-> f.db_object_symbol,
                       type |-> f.db_object_type,
                       fullname |-> f.db_object_name,
                       synonyms |-> f.synonyms,
                       taxon |-> [id |-> f.taxon]]
           subject_extns ==
               IF f.gene_product_isoform # << >>
               THEN <<[property |-> sIsoform, filler |-> f.gene_product_isoform]>>
               ELSE << >>
           refs == _split_pipe(config, f.reference)
           wf == _split_pipe(config, f.withfrom)
           evidence2 == [type |-> evidence,
                         has_supporting_reference |-> refs.ids,
                         with_support_from |-> wf.ids]
           assoc0 == [source_line |-> f.line,
                      subject |-> subject,
                      object |-> object,
                      negated |-> negated,
                      qualifiers |-> reported_qualifiers(f.qualifier),
                      relation |-> [id |-> relation],
                      evidence |-> evidence2,
                      provided_by |-> f.assigned_by,
                      date |-> f.date]
           assoc1 == IF Len(subject_extns) > 0
                     THEN withkey(assoc0, "subject_extensions", subject_extns)
                     ELSE assoc0
           assoc == IF Len(x.extns) > 0
                    THEN withkey(assoc1, "object_extensions", x.extns)
                    ELSE assoc1
           rest == gaf_assocs(config, f, Tail(xp_ors), evidence2)
       IN [raised |-> rest.raised,
           assocs |-> <<assoc>> \o rest.assocs,
           msgs |-> refs.msgs \o wf.msgs \o rest.msgs]

\* line = "\t".join(vals), lines 488 and 688
regenerate_line_spaced(vals) == join(" ", vals)
regenerate_line(vals) == join(TAB, vals)

\* taxa = [self._taxon_id(x) for x in taxon.split("|")], line 494
RECURSIVE _taxon_ids(_, _)
_taxon_ids(config, toks) ==
    IF Len(toks) = 0 THEN [ids |-> << >>, msgs |-> << >>]
    ELSE LET t == _taxon_id(config, toks[1])
             r == _taxon_ids(config, Tail(toks))
         IN [ids |-> <<t.id>> \o r.ids, msgs |-> t.msgs \o r.msgs]

\* vals = vals + ["",""] for a line of 15 columns, lines 436..437
gaf_pad(vals) == IF Len(vals) = 15 THEN vals \o << << >>, << >> >> ELSE vals

GafParser_parse_line(config, line0) ==
    LET vals == gaf_pad(split(line0, TAB))
    IN
    \* the unpacking of lines 438..454 wants 17 values
    IF Len(vals) # 17 THEN Raise("ValueError", << >>)
    ELSE
    LET db == vals[1]
        db_object_id == vals[2]
        goid0 == vals[5]
        id == _pair_to_id(config, db, db_object_id)
        v1 == _validate_id(config, id, line0, ENTITY)
        v2 == _validate_id(config, goid0, line0, ANNOTATION)
        goid == IF config.class_map # None
                THEN map_id(goid0, config.class_map[1])
                ELSE goid0
        v3 == IF config.class_map # None
              THEN _validate_id(config, goid, line0, ANNOTATION)
              ELSE [ok |-> TRUE, msgs |-> << >>]
        vals2 == IF config.class_map # None THEN [vals EXCEPT ![5] = goid] ELSE vals
        m3 == v1.msgs \o v2.msgs \o v3.msgs
    IN
    IF ~v1.ok THEN Return(line0, << >>, v1.msgs)
    ELSE IF ~v2.ok THEN Return(line0, << >>, v1.msgs \o v2.msgs)
    ELSE IF ~v3.ok THEN Return(line0, << >>, m3)
    \* with an entity map, line 482 stores the list toks[1:] in vals[1] and
    \* "\t".join(vals) at line 488 raises TypeError
    ELSE IF config.entity_map # None THEN Raise("TypeError", m3)
    ELSE
    LET line == regenerate_line(vals2)
        taxa == _taxon_ids(config, split(vals[13], "|"))
        taxon == taxa.ids[1]
        vt == _validate_taxon(config, taxon, line)
        f == [line |-> line, id |-> id, goid |-> goid, taxon |-> taxon,
              db_object_symbol |-> vals[3], qualifier |-> vals[4],
              reference |-> vals[6], withfrom |-> vals[8], aspect |-> vals[9],
              db_object_name |-> vals[10], synonyms |-> synonyms_of(vals[11]),
              db_object_type |-> vals[12], date |-> vals[14],
              assigned_by |-> vals[15], gene_product_isoform |-> vals[17]]
        r == gaf_assocs(config, f, split(vals[16], "|"), vals[7])
        msgs == m3 \o taxa.msgs \o vt.msgs \o r.msgs
    IN IF r.raised THEN Raise("ValueError", msgs) ELSE Return(line, r.assocs, msgs)

\* The loop over xp_ors of GpadParser.parse_line, lines 360..387
RECURSIVE gpad_assocs(_, _, _)
gpad_assocs(config, f, xp_ors) ==
    IF Len(xp_ors) = 0 THEN [raised |-> FALSE, assocs |-> << >>, msgs |-> << >>]
    ELSE
    LET x == _extns(split(xp_ors[1], ","))
    IN IF x.raised THEN [raised |-> TRUE, assocs |-> << >>, msgs |-> << >>]
       ELSE
       LET wf == _split_pipe(config, f.withfrom)
           refs == _split_pipe(config, f.reference)
           assoc == [source_line |-> f.line,
                     subject |-> [id |-> f.id],
                     object |-> [id |-> f.goid, extensions |-> x.extns],
                     relation |-> [id |-> f.relation],
                     evidence |-> [type |-> f.evidence,
                                   with_support_from |-> wf.ids,
                                   has_supporting_reference |-> refs.ids],
                     provided_by |-> f.assigned_by,
                     date |-> f.date]
           rest == gpad_assocs(config, f, Tail(xp_ors))
       IN [raised |-> rest.raised,
           assocs |-> <<assoc>> \o rest.assocs,
           msgs |-> wf.msgs \o refs.msgs \o rest.msgs]

GpadParser_parse_line(config, line) ==
    LET vals == split(line, TAB)
    IN
    \* the unpacking of lines 338..349 wants 12 values
    IF Len(vals) # 12 THEN Raise("ValueError", << >>)
    ELSE
    LET id == _pair_to_id(config, vals[1], vals[2])
        goid == vals[4]
        v1 == _validate_id(config, id, line, ENTITY)
        v2 == _validate_id(config, goid, line, ANNOTATION)
    IN
    IF ~v1.ok THEN Return(line, << >>, v1.msgs)
    ELSE IF ~v2.ok THEN Return(line, << >>, v1.msgs \o v2.msgs)
    ELSE
    LET f == [line |-> line, id |-> id, goid |-> goid, relation |-> vals[3],
              reference |-> vals[5], evidence |-> vals[6], withfrom |-> vals[7],
              date |-> vals[9], assigned_by |-> vals[10]]
        r == gpad_assocs(config, f, split(vals[11], "|"))
        msgs == v1.msgs \o v2.msgs \o r.msgs
    IN IF r.raised THEN Raise("ValueError", msgs) ELSE Return(line, r.assocs, msgs)

HpoaParser_parse_line(config, line0) ==
    LET vals == split(line0, TAB)
    IN
    \* the unpacking of lines 635..648 wants 14 values
    IF Len(vals) # 14 THEN Raise("ValueError", << >>)
    ELSE
    LET taxon == sHuman
        db_object_type == sDisease
        id == _pair_to_id(config, vals[1], vals[2])
        hpoid0 == vals[5]
        v1 == _validate_id(config, id, line0, ENTITY)
        v2 == _validate_id(config, hpoid0, line0, ANNOTATION)
        hpoid == IF config.class_map # None
                 THEN map_id(hpoid0, config.class_map[1])
                 ELSE hpoid0
        v3 == IF config.class_map # None
              THEN _validate_id(config, hpoid, line0, ANNOTATION)
              ELSE [ok |-> TRUE, msgs |-> << >>]
        vals2 == IF config.class_map # None THEN [vals EXCEPT ![5] = hpoid] ELSE vals
        m3 == v1.msgs \o v2.msgs \o v3.msgs
    IN
    IF ~v1.ok THEN Return(line0, << >>, v1.msgs)
    ELSE IF ~v2.ok THEN Return(line0, << >>, v1.msgs \o v2.msgs)
    ELSE IF ~v3.ok THEN Return(line0, << >>, m3)
    \* lines 682 and 688: as in GafParser.parse_line
    ELSE IF config.entity_map # None THEN Raise("TypeError", m3)
    ELSE
    LET line == regenerate_line(vals2)
        qualifier == vals[4]
        qualifiers == qualifiers_of(qualifier)
        negated == isin(sNOT, qualifiers)
        relation == hpoa_relation(qualifier, vals[11])
        refs == _split_pipe(config, vals[6])
        wf == _split_pipe(config, vals[10])
        assoc == [source_line |-> line,
                  subject |-> [id |-> id,
                               label |-> vals[3],
                               type |-> db_object_type,
                               synonyms |-> synonyms_of(vals[12]),
                               taxon |-> [id |-> taxon]],
                  object |-> [id |-> hpoid, taxon |-> taxon],
                  negated |-> negated,
                  qualifiers |-> reported_qualifiers(qualifier),
                  relation |-> [id |-> relation],
                  evidence |-> [type |-> vals[7],
                                has_supporting_reference |-> refs.ids,
                                with_support_from |-> wf.ids],
                  provided_by |-> vals[14],
                  date |-> vals[13]]
    IN Return(line, <<assoc>>, m3 \o refs.msgs \o wf.msgs)

\* self.parse_line(line) of a parser of class fmt
parse_line(fmt, config, line) ==
    IF fmt = "gaf" THEN GafParser_parse_line(config, line)
    ELSE IF fmt = "gpad" THEN GpadParser_parse_line(config, line)
    ELSE HpoaParser_parse_line(config, line)

----------------------------------------------------------------------------
(* skim: the tuples it returns or the exception it raises, the messages it  *)
(* appends to the report, and the number of lines it has read.  The lines   *)
(* are those the stream gives, each with its newline: skim strips nothing.  *)

\* vals[i] of a list too short for it raises IndexError
SkimRaise(msgs) == [raised |-> "IndexError", tuples |-> << >>, msgs |-> msgs, read |-> 1]

\* the loop goes on after a line that gave the tuples ts and the messages msgs
SkimOn(ts, msgs, rest) ==
    [raised |-> rest.raised,
     tuples |-> IF rest.raised = "none" THEN ts \o rest.tuples ELSE << >>,
     msgs |-> msgs \o rest.msgs,
     read |-> 1 + rest.read]

\* GafParser.skim, lines 405..423; HpoaParser inherits it
RECURSIVE GafParser_skim(_, _)
GafParser_skim(config, lines) ==
    IF Len(lines) = 0
    THEN [raised |-> "none", tuples |-> << >>, msgs |-> << >>, read |-> 0]
    ELSE
    LET line == lines[1]
        vals == split(line, TAB)
        rest == GafParser_skim(config, Tail(lines))
    IN IF startswith(line, <<"!">>) THEN SkimOn(<< >>, << >>, rest)
       ELSE IF Len(vals) < 4 THEN SkimRaise(<< >>)
       ELSE IF vals[4] # << >> THEN SkimOn(<< >>, << >>, rest)
       ELSE LET id == _pair_to_id(config, vals[1], vals[2])
                v == _validate_id(config, id, line, ENTITY)
            IN IF ~v.ok THEN SkimOn(<< >>, v.msgs, rest)
               ELSE IF Len(vals) < 5 THEN SkimRaise(v.msgs)
               ELSE SkimOn(<< <<id, Some(vals[3]), vals[5]>> >>, v.msgs, rest)

\* GpadParser.skim, lines 315..331
RECURSIVE GpadParser_skim(_, _)
GpadParser_skim(config, lines) ==
    IF Len(lines) = 0
    THEN [raised |-> "none", tuples |-> << >>, msgs |-> << >>, read |-> 0]
    ELSE
    LET line == lines[1]
        vals == split(line, TAB)
        rest == GpadParser_skim(config, Tail(lines))
    IN IF startswith(line, <<"!">>) THEN SkimOn(<< >>, << >>, rest)
       ELSE IF Len(vals) < 3 THEN SkimRaise(<< >>)
       ELSE LET id == _pair_to_id(config, vals[1], vals[2])
                v == _validate_id(config, id, line, ENTITY)
            IN IF ~v.ok THEN SkimOn(<< >>, v.msgs, rest)
               ELSE IF Len(vals) < 4 THEN SkimRaise(v.msgs)
               ELSE SkimOn(<< <<id, None, vals[4]>> >>, v.msgs, rest)

\* self.skim(file) of a parser of class fmt
skim(fmt, config, lines) ==
    IF fmt = "gpad" THEN GpadParser_skim(config, lines)
    ELSE GafParser_skim(config, lines)

----------------------------------------------------------------------------
(* The inputs the checks draw from *)

\* the most tokens an extension column is built from
MaxExt == 4
\* the most lines the streams given to one parser hold in all
MaxLines == 3
\* the most calls of parse on one parser
MaxParses == 2

Formats == {"gaf", "gpad", "hpoa"}

sEmpty == << >>
sM == <<"M">>
sLocal == <<"1">>
sLocalDouble == <<"M", ":", "1">>
sLocalSpace == <<"a", " ", "b">>
sLocalPipe == <<"a", "|", "b">>
sTerm == <<"G", ":", "1">>
sTermOther == <<"X", ":", "1">>
sTermSpace == <<"G", " ", "1">>
sTermPipe == <<"G", ":", "1", "|", "2">>
sMappedTerm == <<"H", ":", "1">>
sMappedTermSpace == <<"H", " ", "1">>
sEntity == <<"M", ":", "1">>
sMappedEntity == <<"N", ":", "2">>
sRef == <<"R", ":", "1">>
sTaxon1 == <<"t", "a", "x", "o", "n", ":", "1">>
sTaxon21 == <<"t", "a", "x", "o", "n", ":", "2", "|", "t", "a", "x", "o", "n", ":", "1">>
sNCBITaxon1 == <<"N", "C", "B", "I", "T", "a", "x", "o", "n", ":", "1">>
sQ == <<"q">>
sNOTQ == <<"N", "O", "T", "|", "q">>
sAtomA == <<"A", "(", "1", ")">>
sAtomB == <<"B", "(", "2", ")">>
sBadAtom == <<"x">>
sExample == <<"A", "(", "1", ")", "|", "B", "(", "2", ")", ",", "C", "(", "3", ")">>
sComment == <<"!", "c">>

Locals == {sLocal, sLocalDouble, sLocalSpace, sLocalPipe}
Terms == {sTerm, sTermOther, sTermSpace, sTermPipe}
Quals == {sEmpty, sNOT, sNOTQ, sQ}
Aspects == {<<"C">>, <<"P">>, <<"F">>, <<"O">>, <<"I">>, <<"M">>, <<"X">>}
Taxa == {sTaxon1, sTaxon21}

\* extension columns: up to n tokens, each an atom, a malformed atom or a
\* separator, written one after the other
ExtTokens == {sAtomA, sAtomB, sBadAtom, <<"|">>, <<",">>}
RECURSIVE ExtStrings(_)
ExtStrings(n) ==
    IF n = 0 THEN {sEmpty}
    ELSE LET shorter == ExtStrings(n - 1)
         IN shorter \cup {x \o t : x \in shorter, t \in ExtTokens}
Exts == ExtStrings(MaxExt) \cup {sExample}
FewExts == {sEmpty, sAtomA \o <<"|">> \o sAtomB}

DefaultConfig ==
    [remove_double_prefixes |-> FALSE, class_map |-> None, entity_map |-> None,
     valid_taxa |-> None, class_idspaces |-> None]

ClassMaps == {None,
              Some([k \in {sTerm} |-> sMappedTerm]),
              Some([k \in {sTerm} |-> sMappedTermSpace])}
EntityMaps == {None, Some([k \in {sEntity} |-> sMappedEntity])}

Configs ==
    [remove_double_prefixes : BOOLEAN,
     class_map : ClassMaps,
     entity_map : EntityMaps,
     valid_taxa : {None, Some({sNCBITaxon1})},
     class_idspaces : {None, Some({<<"G">>, <<"H">>})}]

\* the 17 columns of a GAF line
GafCols(local, qual, term, aspect, taxon, xp) ==
    <<sM, local, <<"s">>, qual, term, sRef, <<"E">>, sEmpty, aspect, <<"n">>,
      sEmpty, <<"g">>, taxon, <<"d">>, sM, xp, sEmpty>>

\* the 12 columns of a GPAD line
GpadCols(local, term, xp) ==
    <<sM, local, <<"r">>, term, sRef, <<"E">>, sEmpty, sEmpty, <<"d">>, sM,
      xp, sEmpty>>

\* the 14 columns of an HPOA line
HpoaCols(local, qual, term, aspect) ==
    <<sM, local, <<"s">>, qual, term, sRef, <<"E">>, sEmpty, sEmpty, sEmpty,
      aspect, sEmpty, <<"d">>, sM>>

\* a line of the first n of the columns, of one column more past the last
Line(cols, n) ==
    IF n <= Len(cols) THEN join(TAB, SubSeq(cols, 1, n))
    ELSE join(TAB, cols \o <<sEmpty>>)

\* (config, line) pairs: the ids and the configuration vary
GafIdInputs ==
    {<<c, Line(GafCols(l, sEmpty, t, <<"P">>, x, e), n)>> :
        c \in Configs, l \in Locals, t \in Terms, x \in Taxa, e \in FewExts,
        n \in {3, 15, 17}}
\* the qualifier and the aspect vary
GafQualInputs ==
    {<<DefaultConfig, Line(GafCols(sLocal, q, sTerm, a, sTaxon1, sEmpty), n)>> :
        q \in Quals, a \in Aspects, n \in {15, 17}}
\* the extension column varies
GafExtInputs ==
    {<<DefaultConfig, Line(GafCols(l, sEmpty, sTerm, <<"P">>, sTaxon1, e), n)>> :
        l \in {sLocal, sLocalSpace}, e \in Exts, n \in {16, 17, 18}}

GpadIdInputs ==
    {<<c, Line(GpadCols(l, t, e), n)>> :
        c \in Configs, l \in Locals, t \in Terms, e \in FewExts, n \in {11, 12}}
GpadExtInputs ==
    {<<DefaultConfig, Line(GpadCols(l, sTerm, e), n)>> :
        l \in {sLocal, sLocalSpace}, e \in Exts, n \in {12, 13}}

HpoaIdInputs ==
    {<<c, Line(HpoaCols(l, sEmpty, t, <<"O">>), n)>> :
        c \in Configs, l \in Locals, t \in Terms, n \in {13, 14}}
HpoaQualInputs ==
    {<<DefaultConfig, Line(HpoaCols(sLocal, q, sTerm, a), n)>> :
        q \in Quals, a \in Aspects, n \in {14, 15}}

LineInputs(f) ==
    IF f = "gaf" THEN GafIdInputs \cup GafQualInputs \cup GafExtInputs
    ELSE IF f = "gpad" THEN GpadIdInputs \cup GpadExtInputs
    ELSE HpoaIdInputs \cup HpoaQualInputs

\* the lines of the streams the driver reads, each ending in a newline: a
\* comment, a line of one record, a line the decoder drops, a line the
\* decoder raises on and, but for HPOA, a line of two records
GoodLine(f, xp) ==
    IF f = "gaf" THEN Line(GafCols(sLocal, sEmpty, sTerm, <<"P">>, sTaxon1, xp), 17)
    ELSE IF f = "gpad" THEN Line(GpadCols(sLocal, sTerm, xp), 12)
    ELSE Line(HpoaCols(sLocal, sEmpty, sTerm, <<"O">>), 14)
DroppedLine(f) ==
    IF f = "gaf"
    THEN Line(GafCols(sLocalSpace, sEmpty, sTerm, <<"P">>, sTaxon1, sEmpty), 17)
    ELSE IF f = "gpad" THEN Line(GpadCols(sLocalSpace, sTerm, sEmpty), 12)
    ELSE Line(HpoaCols(sLocalSpace, sEmpty, sTerm, <<"O">>), 14)
ShortLine == join(TAB, <<sM, sLocal, <<"s">> >>)
StreamLines(f) ==
    {l \o <<NL>> : l \in {sComment, GoodLine(f, sEmpty),
                          GoodLine(f, sAtomA \o <<"|">> \o sAtomB),
                          DroppedLine(f), ShortLine}}
Streams(f, n) == UNION {[1..k -> StreamLines(f)] : k \in 0..n}
Sinks == {None, Some(<< >>)}

----------------------------------------------------------------------------
(* The state: one parser, the stream and the sink of its current call of    *)
(* parse, and the locals of that call.                                      *)

VARIABLES
    fmt,        \* the parser's class: "gaf", "gpad" or "hpoa"
    config,     \* self.config
    report,     \* self.report
    pc,         \* "idle" between calls of parse, "loop" inside the for loop
    file,       \* the stream of the last call of parse: lines, position, closed
    outfile,    \* None, or what has been written to the sink
    n_lines,    \* parse's local n_lines
    assocs,     \* parse's local assocs
    skipped,    \* parse's local skipped
    outcome,    \* how the last call of parse ended: "returned" or the exception
    parses,     \* the calls of parse made
    fed,        \* the streams given to parse, in order
    arg,        \* the line given to a direct call of parse_line
    ret,        \* None, or what that call gave back
    tuples      \* None, or what the call of skim gave back

vars == <<fmt, config, report, pc, file, outfile, n_lines, assocs, skipped,
          outcome, parses, fed, arg, ret, tuples>>

\* Report.__init__, lines 54..62
NewReport ==
    [messages |-> << >>, n_lines |-> 0, n_assocs |-> 0, skipped |-> << >>,
     subjects |-> {}, objects |-> {}, taxa |-> {}, references |-> {}]

NoFile == [lines |-> << >>, pos |-> 0, closed |-> FALSE]

\* the parser's __init__, lines 395..403, with no call of parse made
NewParser ==
    /\ report = NewReport
    /\ pc = "idle"
    /\ file = NoFile
    /\ n_lines = 0
    /\ assocs = << >>
    /\ skipped = << >>
    /\ outcome = "none"
    /\ parses = 0
    /\ fed = << >>
    /\ ret = None
    /\ tuples = None

----------------------------------------------------------------------------
(* A direct call of parse_line on a new parser *)

InitLine ==
    /\ fmt \in Formats
    /\ \E input \in LineInputs(fmt) : config = input[1] /\ arg = input[2]
    /\ outfile = None
    /\ NewParser

CallParseLine ==
    /\ ret = None
    /\ LET r == parse_line(fmt, config, arg)
       IN /\ ret' = Some(r)
          /\ report' = [report EXCEPT !.messages = @ \o r.msgs]
    /\ UNCHANGED <<fmt, config, pc, file, outfile, n_lines, assocs, skipped,
                   outcome, parses, fed, arg, tuples>>

NextLine == CallParseLine

SpecLine == InitLine /\ [][NextLine]_vars

----------------------------------------------------------------------------
(* AssocParser.parse, lines 149..196, one step for each pass of the loop    *)

DriverConfigs ==
    {DefaultConfig, [DefaultConfig EXCEPT !.class_idspaces = Some({<<"H">>})]}

Init ==
    /\ fmt \in Formats
    /\ config \in DriverConfigs
    /\ outfile \in Sinks
    /\ arg = << >>
    /\ NewParser

RECURSIVE total_len(_)
total_len(streams) ==
    IF Len(streams) = 0 THEN 0 ELSE Len(streams[1]) + total_len(Tail(streams))

\* lines 161..164: parse is called with a stream (a file-like object, which
\* _ensure_file returns as it is)
ParseBegin(stream) ==
    /\ pc = "idle"
    /\ parses < MaxParses
    /\ file' = [lines |-> stream, pos |-> 0, closed |-> FALSE]
    /\ n_lines' = 0
    /\ assocs' = << >>
    /\ skipped' = << >>
    /\ outcome' = "running"
    /\ parses' = parses + 1
    /\ fed' = Append(fed, stream)
    /\ pc' = "loop"
    /\ UNCHANGED <<fmt, config, report, outfile, arg, ret, tuples>>

\* what lines 177..183 add to the report for the records of one line
RECURSIVE add_assocs(_, _)
add_assocs(rpt, new_assocs) ==
    IF Len(new_assocs) = 0 THEN rpt
    ELSE LET a == new_assocs[1]
             rpt2 == [rpt EXCEPT
                        !.subjects = @ \cup {a.subject.id},
                        !.objects = @ \cup {a.object.id},
                        !.references = @ \cup
                            {a.evidence.has_supporting_reference[i] :
                                i \in 1..Len(a.evidence.has_supporting_reference)},
                        !.taxa = IF "taxon" \in DOMAIN a.subject
                                 THEN @ \cup {a.subject.taxon.id} ELSE @]
         IN add_assocs(rpt2, Tail(new_assocs))

\* outfile.write(s), when a sink is given
write(sink, s) == IF sink = None THEN sink ELSE Some(Append(sink[1], s))

\* lines 167..170: a comment line goes to the sink as it is
CommentLine(line0) ==
    /\ outfile' = write(outfile, line0)
    /\ UNCHANGED <<report, assocs, skipped, outcome, pc>>

\* lines 173..186: what parse does with r, the outcome of parse_line(line)
DecodedLine(line, r) ==
    IF r.raised # "none"
    THEN \* the exception leaves parse: nothing after the loop runs
         /\ report' = [report EXCEPT !.messages = @ \o r.msgs]
         /\ outcome' = r.raised
         /\ pc' = "idle"
         /\ UNCHANGED <<outfile, assocs, skipped>>
    ELSE IF r.assocs = << >>
    THEN /\ report' = [report EXCEPT !.messages = @ \o r.msgs]
         /\ skipped' = Append(skipped, line)
         /\ UNCHANGED <<outfile, assocs, outcome, pc>>
    ELSE /\ report' = add_assocs([report EXCEPT !.messages = @ \o r.msgs], r.assocs)
         /\ assocs' = assocs \o r.assocs
         /\ outfile' = write(outfile, r.line \o <<NL>>)
         /\ UNCHANGED <<skipped, outcome, pc>>

\* lines 165..172: the body of the loop for the line read
LoopBody(line0) ==
    IF startswith(line0, <<"!">>) THEN CommentLine(line0)
    ELSE DecodedLine(strip_nl(line0), parse_line(fmt, config, strip_nl(line0)))

\* lines 165..186: one pass of the loop
ParseLoop ==
    /\ pc = "loop"
    /\ file.pos < Len(file.lines)
    /\ file' = [file EXCEPT !.pos = @ + 1]
    /\ n_lines' = n_lines + 1
    /\ LoopBody(file.lines[file.pos + 1])
    /\ UNCHANGED <<fmt, config, parses, fed, arg, ret, tuples>>

\* the statements after the loop with = for +
ParseEnd_overwrite ==
    /\ pc = "loop"
    /\ file.pos = Len(file.lines)
    /\ report' = [report EXCEPT !.skipped = skipped,
                                !.n_lines = n_lines,
                                !.n_assocs = Len(assocs)]
    /\ file' = [file EXCEPT !.closed = TRUE]
    /\ outcome' = "returned"
    /\ pc' = "idle"
    /\ UNCHANGED <<fmt, config, outfile, n_lines, assocs, skipped, parses, fed,
                   arg, ret, tuples>>

\* lines 188..196: after the loop
ParseEnd ==
    /\ pc = "loop"
    /\ file.pos = Len(file.lines)
    /\ report' = [report EXCEPT !.skipped = @ \o skipped,
                                !.n_lines = @ + n_lines,
                                !.n_assocs = @ + Len(assocs)]
    /\ file' = [file EXCEPT !.closed = TRUE]
    /\ outcome' = "returned"
    /\ pc' = "idle"
    /\ UNCHANGED <<fmt, config, outfile, n_lines, assocs, skipped, parses, fed,
                   arg, ret, tuples>>

Next ==
    \/ \E stream \in Streams(fmt, MaxLines - total_len(fed)) : ParseBegin(stream)
    \/ ParseLoop
    \/ ParseEnd

Spec == Init /\ [][Next]_vars

----------------------------------------------------------------------------
(* skim and then parse, on one parser, of two streams of the same lines     *)

\* the most lines of the stream that is skimmed and parsed
MaxSkim == 2

SkimConfigs ==
    DriverConfigs \cup {[DefaultConfig EXCEPT !.remove_double_prefixes = TRUE]}

\* a line with a qualifier (GPAD has no such column) and a line whose local
\* id repeats the database prefix
QualifiedLine(f) ==
    IF f = "gaf" THEN Line(GafCols(sLocal, sNOT, sTerm, <<"P">>, sTaxon1, sEmpty), 17)
    ELSE IF f = "gpad" THEN Line(GpadCols(sLocal, sTerm, sEmpty), 12)
    ELSE Line(HpoaCols(sLocal, sNOT, sTerm, <<"O">>), 14)
DoubleLine(f) ==
    IF f = "gaf"
    THEN Line(GafCols(sLocalDouble, sEmpty, sTerm, <<"P">>, sTaxon1, sEmpty), 17)
    ELSE IF f = "gpad" THEN Line(GpadCols(sLocalDouble, sTerm, sEmpty), 12)
    ELSE Line(HpoaCols(sLocalDouble, sEmpty, sTerm, <<"O">>), 14)
SkimLines(f) ==
    StreamLines(f) \cup {l \o <<NL>> : l \in {QualifiedLine(f), DoubleLine(f)}}
SkimStreams(f) == UNION {[1..k -> SkimLines(f)] : k \in 0..MaxSkim}

InitSkim ==
    /\ fmt \in Formats
    /\ config \in SkimConfigs
    /\ outfile = None
    /\ arg = << >>
    /\ NewParser

\* what skim leaves when its loop has ended with r; it does not close the
\* stream
SkimReturn(stream, r) ==
    /\ tuples' = Some([raised |-> r.raised, tuples |-> r.tuples])
    /\ report' = [report EXCEPT !.messages = @ \o r.msgs]
    /\ file' = [lines |-> stream, pos |-> r.read, closed |-> FALSE]
    /\ UNCHANGED <<fmt, config, pc, outfile, n_lines, assocs, skipped, outcome,
                   parses, fed, arg, ret>>

\* lines 405..423 and 315..331: skim is called with a stream
Skim(stream) ==
    /\ pc = "idle"
    /\ tuples = None
    /\ parses = 0
    /\ SkimReturn(stream, skim(fmt, config, stream))

\* parse is called with a stream of the lines that were skimmed
ParseSkimmed ==
    /\ tuples # None
    /\ parses = 0
    /\ ParseBegin(file.lines)

NextSkim ==
    \/ \E stream \in SkimStreams(fmt) : Skim(stream)
    \/ ParseSkimmed
    \/ ParseLoop
    \/ ParseEnd

SpecSkim == InitSkim /\ [][NextSkim]_vars

----------------------------------------------------------------------------
(* What the properties below read *)

\* the direct call of parse_line has been made; Ret is what it gave back
Called == ret # None
Ret == ret[1]
Returned == Called /\ Ret.raised = "none"
\* the call returned at least one record
Accepted == Returned /\ Ret.assocs # << >>

\* the columns of the line given to parse_line
ArgCols == split(arg, TAB)
\* the number of columns the decoder of the parser's class unpacks
Width == IF fmt = "gaf" THEN 17 ELSE IF fmt = "gpad" THEN 12 ELSE 14
\* the index of the term id column
TermCol == IF fmt = "gpad" THEN 4 ELSE 5
\* the extension column of the line, empty when the line has none
ArgExt ==
    LET k == IF fmt = "gaf" THEN 16 ELSE 11
    IN IF fmt # "hpoa" /\ Len(ArgCols) >= k THEN ArgCols[k] ELSE << >>
\* the qualifier column of a GAF or HPOA line
ArgQual == IF Len(ArgCols) >= 4 THEN ArgCols[4] ELSE << >>
\* the entity id database:localId of the line, for a line of two columns or more
ArgEntity == ArgCols[1] \o <<":">> \o ArgCols[2]

\* the number of "|" in s
Pipes(s) == Cardinality({i \in 1..Len(s) : s[i] = "|"})
\* the conjuncts of a disjunct that are not empty
Conjuncts(d) == without(split(d, ","), << >>)
\* the atoms a record carries
ObjExt(a) ==
    IF fmt = "gpad" THEN a.object.extensions
    ELSE IF "object_extensions" \in DOMAIN a THEN a.object_extensions
    ELSE << >>
\* atom a is what conjunct c spells: c is property(filler), followed at most
\* by text that closes no parenthesis
Spells(c, a) ==
    LET text == a.property \o <<"(">> \o a.filler \o <<")">>
    IN /\ startswith(c, text)
       /\ ~contains(SubSeq(c, Len(text) + 1, Len(c)), ")")
       /\ ~contains(a.filler, "(")

----------------------------------------------------------------------------
(* C1: decoding a line is total: for every raw line parse_line returns a    *)
(* (line, records) pair and never raises.                                   *)
C1_DecodingIsTotal == Called => Ret.raised = "none"

(* C2: an accepted GAF or GPAD line yields one record for each "|"-separated *)
(* disjunct of its extension column, in order, and the k-th record carries   *)
(* the atoms of the k-th disjunct, one for each conjunct that is not empty,  *)
(* in order; a line whose extension column is empty or absent yields one     *)
(* record.                                                                   *)
C2_ExtensionFanOut ==
    (Accepted /\ fmt \in {"gaf", "gpad"}) =>
        LET disjuncts == split(ArgExt, "|")
        IN /\ Len(Ret.assocs) = Pipes(ArgExt) + 1
           /\ ArgExt = << >> => Len(Ret.assocs) = 1
           /\ \A k \in 1..Len(Ret.assocs) :
                LET atoms == ObjExt(Ret.assocs[k])
                    conj == Conjuncts(disjuncts[k])
                IN /\ Len(atoms) = Len(conj)
                   /\ \A i \in 1..Len(atoms) : Spells(conj[i], atoms[i])

\* the line with the extension column A(1)|B(2),C(3) has given two records,
\* the first with [A(1)], the second with [B(2), C(3)]
C2_Witness ==
    /\ Accepted
    /\ fmt = "gaf"
    /\ ArgExt = sExample
    /\ Len(Ret.assocs) = 2
    /\ ObjExt(Ret.assocs[1]) = <<[property |-> <<"A">>, filler |-> <<"1">>]>>
    /\ ObjExt(Ret.assocs[2]) = <<[property |-> <<"B">>, filler |-> <<"2">>],
                                 [property |-> <<"C">>, filler |-> <<"3">>]>>

(* C3: in every record of the GAF or HPOA decoder the reported qualifiers   *)
(* do not contain NOT, and a record of a line whose qualifier column holds  *)
(* NOT is negated.                                                          *)
C3_QualifiersExcludeNOT ==
    (Returned /\ fmt \in {"gaf", "hpoa"}) =>
        \A k \in 1..Len(Ret.assocs) :
            /\ ~isin(sNOT, Ret.assocs[k].qualifiers)
            /\ isin(sNOT, split(ArgQual, "|")) => Ret.assocs[k].negated

(* C4: after parse has ended, by returning or by an exception raised while  *)
(* decoding a line, the stream is closed.                                   *)
C4_StreamClosedAfterParse == (pc = "idle" /\ parses > 0) => file.closed

(* C5: the report accumulates over the calls of parse on one parser: its   *)
(* line count, record count and skipped lines are the sums of what each     *)
(* call made so far would leave in the report of a new parser, and no call  *)
(* ever lowers them.                                                        *)

\* what parse(stream) leaves in the counters of a new parser's report:
\* nothing when a line of the stream makes parse_line raise
FreshRun(stream) ==
    LET data == {i \in 1..Len(stream) : ~startswith(stream[i], <<"!">>)}
        dec == [i \in data |-> parse_line(fmt, config, strip_nl(stream[i]))]
        RECURSIVE records(_)
        records(i) ==
            IF i = 0 THEN 0
            ELSE records(i - 1) + (IF i \in data THEN Len(dec[i].assocs) ELSE 0)
    IN IF \E i \in data : dec[i].raised # "none"
       THEN [n_lines |-> 0, n_assocs |-> 0, n_skipped |-> 0]
       ELSE [n_lines |-> Len(stream),
             n_assocs |-> records(Len(stream)),
             n_skipped |-> Cardinality({i \in data : dec[i].assocs = << >>})]

RECURSIVE SumOfRuns(_)
SumOfRuns(streams) ==
    IF Len(streams) = 0 THEN [n_lines |-> 0, n_assocs |-> 0, n_skipped |-> 0]
    ELSE LET a == FreshRun(streams[1])
             b == SumOfRuns(Tail(streams))
         IN [n_lines |-> a.n_lines + b.n_lines,
             n_assocs |-> a.n_assocs + b.n_assocs,
             n_skipped |-> a.n_skipped + b.n_skipped]

\* the calls of parse that have ended
Ended == IF pc = "idle" THEN fed ELSE SubSeq(fed, 1, Len(fed) - 1)

CountersAreSums ==
    LET sum == SumOfRuns(Ended)
    IN /\ report.n_lines = sum.n_lines
       /\ report.n_assocs = sum.n_assocs
       /\ Len(report.skipped) = sum.n_skipped

CountersNeverDecrease ==
    /\ report'.n_lines >= report.n_lines
    /\ report'.n_assocs >= report.n_assocs
    /\ Len(report'.skipped) >= Len(report.skipped)

C5_ReportAccumulates == []CountersAreSums /\ [][CountersNeverDecrease]_vars

\* two calls of parse have returned, each having read lines, and the report
\* holds records and skipped lines of both
C5_Witness ==
    /\ pc = "idle"
    /\ Len(fed) = 2
    /\ outcome = "returned"
    /\ FreshRun(fed[1]).n_assocs > 0
    /\ FreshRun(fed[1]).n_skipped > 0
    /\ FreshRun(fed[2]).n_assocs > 1
    /\ report.n_lines = Len(fed[1]) + Len(fed[2])
    /\ report.n_assocs = FreshRun(fed[1]).n_assocs + FreshRun(fed[2]).n_assocs

----------------------------------------------------------------------------
\* the line has the columns the decoder unpacks and ids that pass the first
\* two validations, so that decoding goes on past line 464 (or 356, or 664)
Shaped == IF fmt = "gaf" THEN Len(ArgCols) \in {15, 17} ELSE Len(ArgCols) = Width
Remapped == config.class_map # None \/ config.entity_map # None
IdsPass ==
    /\ Shaped
    /\ _validate_id(config, _pair_to_id(config, ArgCols[1], ArgCols[2]), arg, ENTITY).ok
    /\ _validate_id(config, ArgCols[TermCol], arg, ANNOTATION).ok
\* the ids the remap tables give for the ids of the line
MappedTerm ==
    IF config.class_map = None THEN ArgCols[TermCol]
    ELSE map_id(ArgCols[TermCol], config.class_map[1])
MappedEntity ==
    LET id == _pair_to_id(config, ArgCols[1], ArgCols[2])
    IN IF config.entity_map = None THEN id ELSE map_id(id, config.entity_map[1])

(* C6: with a term-id or an entity-id remap table configured, the GAF and   *)
(* HPOA decoders replace an id by the mapped id, validate the mapped id     *)
(* again and drop the line (zero records) when it fails; the line returned  *)
(* for an accepted line, and the source_line of each of its records, carry  *)
(* the mapped ids in their columns.                                         *)
C6_RemapRewritesIds ==
    (Called /\ fmt \in {"gaf", "hpoa"} /\ Remapped /\ IdsPass) =>
        /\ Ret.raised = "none"
        /\ ( \/ contains(MappedTerm, " ")
             \/ contains(MappedEntity, " ") ) => Ret.assocs = << >>
        /\ \A k \in 1..Len(Ret.assocs) :
             LET a == Ret.assocs[k]
                 cols == split(a.source_line, TAB)
             IN /\ a.source_line = Ret.line
                /\ a.object.id = MappedTerm
                /\ a.subject.id = MappedEntity
                /\ cols[5] = MappedTerm
                /\ config.entity_map # None =>
                       cols[1] \o <<":">> \o cols[2] = MappedEntity

(* C7: a conjunct of the extension column that is not empty and has not the *)
(* shape IDENT(IDENT) does not stop the decoding of its line: parse_line    *)
(* does not raise, reports the failure, and returns one record for each     *)
(* disjunct.                                                                *)
C7_BadAtomIsLocal ==
    (Called /\ fmt \in {"gaf", "gpad"} /\ IdsPass /\ ~Remapped
       /\ isin(sBadAtom, split(ArgExt, "|")) ) =>
        /\ Ret.raised = "none"
        /\ Len(Ret.assocs) = Pipes(ArgExt) + 1
        /\ report.messages # << >>

(* C8: a data-quality condition that does not drop the record is logged at *)
(* WARNING: the message for an id holding a pipe and the message for a      *)
(* primary taxon outside the configured valid taxa have level WARNING.      *)
C8_NonFatalIsWarning ==
    Called =>
        \A i \in 1..Len(report.messages) :
            LET m == report.messages[i]
            IN ( \/ m.type = INVALID_TAXON
                 \/ /\ m.type = INVALID_ID
                    /\ contains(m.obj, "|")
                    /\ ~contains(m.obj, " ") ) => m.level = WARNING

(* C9: a line whose entity id database:localId holds a space yields zero    *)
(* records and adds one message to the report, of level ERROR and type      *)
(* "Invalid identifier", and no other.                                      *)
C9_SpaceInEntityIdDropsLine ==
    (Called /\ Len(ArgCols) >= 2 /\ contains(ArgEntity, " ")) =>
        /\ Ret.raised = "none"
        /\ Ret.assocs = << >>
        /\ Len(report.messages) = 1
        /\ report.messages[1].level = ERROR
        /\ report.messages[1].type = INVALID_ID

\* no remap table is configured, the extension column is empty or absent,
\* and the GAF or HPOA line was accepted
RoundTripCase ==
    /\ Accepted
    /\ fmt \in {"gaf", "hpoa"}
    /\ ~Remapped
    /\ ArgExt = << >>

\* the line returned, and the source_line of every record, is text
LineIs(text) ==
    /\ Ret.line = text
    /\ \A k \in 1..Len(Ret.assocs) : Ret.assocs[k].source_line = text

(* C10, as claimed: with no remap table and an empty extension column, the  *)
(* line that parse_line returns, and every record's source_line, is the     *)
(* input line, for every accepted GAF line of 15 or 17 columns and every    *)
(* accepted HPOA line.                                                      *)
C10_RoundTrip == RoundTripCase => LineIs(arg)

(* C10, as amended: it is the input line for every accepted GAF line of 17  *)
(* columns and every accepted HPOA line, and the input line followed by two *)
(* tabs, the two empty columns of the padding, for an accepted GAF line of  *)
(* 15 columns.                                                              *)
C10_RoundTripPadded ==
    RoundTripCase =>
        IF fmt = "gaf" /\ Len(ArgCols) = 15
        THEN LineIs(arg \o <<TAB, TAB>>)
        ELSE LineIs(arg)

\* both cases have happened: this state is one of an accepted GAF line of 15
\* columns returned with the two tabs
C10_Witness ==
    /\ RoundTripCase
    /\ fmt = "gaf"
    /\ Len(ArgCols) = 15
    /\ Ret.line = arg \o <<TAB, TAB>>
    /\ Ret.assocs[1].source_line # arg

----------------------------------------------------------------------------
\* skim has returned its tuples and parse, of the same lines, its records
BothReturned ==
    /\ tuples # None
    /\ tuples[1].raised = "none"
    /\ pc = "idle"
    /\ parses = 1
    /\ outcome = "returned"

\* the elements of a list
Range(xs) == {xs[i] : i \in 1..Len(xs)}

\* the (subject id, subject label, object id) of a record; the label is None
\* for a record with none
Project(a) ==
    <<a.subject.id,
      IF "label" \in DOMAIN a.subject THEN Some(a.subject.label) ELSE None,
      a.object.id>>

(* C11: skim is a projection of parse: for the same lines and the same      *)
(* configuration, the (subject id, subject label, object id) tuples skim    *)
(* returns are those of the records parse returns, no more and no fewer, so *)
(* that no line is left out of skim that gives a record in parse.           *)
C11_SkimIsProjection ==
    BothReturned =>
        Range(tuples[1].tuples) = {Project(assocs[i]) : i \in 1..Len(assocs)}

----------------------------------------------------------------------------
\* what the lines of a stream are to leave in the sink: a comment line as it
\* is, and the source_line of the records of a line that gave records,
\* followed by a newline, once
RECURSIVE Mirrored(_)
Mirrored(stream) ==
    IF Len(stream) = 0 THEN << >>
    ELSE LET line0 == stream[1]
             r == parse_line(fmt, config, strip_nl(line0))
         IN (IF startswith(line0, <<"!">>) THEN <<line0>>
             ELSE IF r.assocs # << >> THEN <<r.assocs[1].source_line \o <<NL>> >>
             ELSE << >>) \o Mirrored(Tail(stream))

\* the lines of a stream that are no comments and give no record
RECURSIVE Recordless(_)
Recordless(stream) ==
    IF Len(stream) = 0 THEN << >>
    ELSE LET line0 == stream[1]
             r == parse_line(fmt, config, strip_nl(line0))
         IN (IF ~startswith(line0, <<"!">>) /\ r.assocs = << >>
             THEN <<strip_nl(line0)>> ELSE << >>) \o Recordless(Tail(stream))

\* the lines of all the streams, one stream after the other
RECURSIVE Flat(_)
Flat(streams) == IF Len(streams) = 0 THEN << >> ELSE streams[1] \o Flat(Tail(streams))

(* C12: when the calls of parse that were given the sink have ended, the    *)
(* sink holds, in the order of the input, every comment line as it was read *)
(* and, once, the rewritten line of every other line that gave at least one *)
(* record; a line that gave no record has written nothing and is in the     *)
(* skipped list of the report.                                              *)
C12_MirrorSink ==
    (pc = "idle" /\ parses > 0 /\ outfile # None) =>
        /\ outfile[1] = Mirrored(Flat(fed))
        /\ report.skipped = Recordless(Flat(fed))

----------------------------------------------------------------------------
\* the GAF line was accepted and has given two records or more
FannedOut == Accepted /\ fmt = "gaf" /\ Len(Ret.assocs) >= 2

\* records a and b agree on the fields that are no extension list and no
\* evidence block
AgreeButEvidence(a, b) ==
    /\ a.source_line = b.source_line
    /\ a.subject = b.subject
    /\ a.object = b.object
    /\ a.relation = b.relation
    /\ a.negated = b.negated

(* C13: the records of one GAF line of two extension disjuncts or more     *)
(* agree with the first of them on source_line, subject, object, relation, *)
(* negated flag and evidence block, and the evidence type of each is the   *)
(* evidence-code column of the line.  (A str is compared with a value that *)
(* may be a dict with the str on the left.)                                *)
C13_FanOutAgrees ==
    FannedOut =>
        \A k \in 1..Len(Ret.assocs) :
            /\ AgreeButEvidence(Ret.assocs[1], Ret.assocs[k])
            /\ ArgCols[7] = Ret.assocs[k].evidence.type
            /\ Ret.assocs[1].evidence = Ret.assocs[k].evidence

=============================================================================
